---- MODULE Spec2Model ----
(***************************************************************************)
(* PartyScore Karaoke: the round state machine and the scoring engine of   *)
(* src/frontend/src/app/app.component.ts (class AppComponent).             *)
(*                                                                         *)
(* Numbers.  The component computes with IEEE doubles.  Here an energy is  *)
(* an integer number of 1/EnergyScale units, a pitch an integer number of  *)
(* Hz (0 stands for null: `if (pitch)` treats both alike), and a sub-score *)
(* in [0,1] an integer number of 1/Scale units, rounded down once where    *)
(* the code divides or takes a square root.  Round rounds that value: a    *)
(* double whose exact value is a half-integer percentage can fall just     *)
(* below it, and the code then shows one less than the model.              *)
(* A sample of a frame is an integer number of 1/AmpScale units or NaN; a  *)
(* pitch the estimator returns is kept as the pair of sample rate and lag  *)
(* whose quotient it is.                                                   *)
(*                                                                         *)
(* Fields that only feed the display (error, playerName, pitchNote,        *)
(* levelBar, the confetti and toast DOM nodes) and the handles that no     *)
(* modelled branch reads (mediaStream, audioCtx) are not part of the       *)
(* state.  Storage starts empty and the page URL carries no challenge.     *)
(***************************************************************************)
EXTENDS Integers, Sequences, FiniteSets

\* ---------------------------------------------------------------- bounds
MaxFrames == 2        \* frame callbacks between two startRound calls (Spec)
SteadyFrames == 10    \* the same, in the steady-voice scenario (SpecSteady)
ScoreLen == 8         \* measurements accumulated for computeScore (SpecScore)
MaxRounds == 2        \* startRound calls that take effect
MaxMicCalls == 2      \* enableMic calls
PitchLen == 9         \* pitch samples handed to the pitch sub-scores (SpecPitch)
MaxPairs == 50        \* adjacent pairs of in-band pitch samples (SpecVariety)
FrameLen == 5         \* samples of one frame of time-domain data (SpecFrame)
BoardRounds == 27     \* finalized rounds (SpecBoard)
OddRounds == 2        \* of these, rounds not scoring as the first round did

\* ------------------------------------------------------ program constants
RoundSeconds == 10    \* secondsLeft at the start of a round
BoardSize == 25       \* leaderboard cap
MinPitchSamples == 8  \* fewer pitch samples than this: the floor scores
MinHz == 80
MaxHz == 800
EnergyScale == 10     \* an energy e stands for e / EnergyScale, in [0,1]
Scale == 10000        \* a sub-score s stands for s / Scale, in [0,1]
AmpScale == 100       \* a sample v of a frame stands for v / AmpScale, in [-1,1]

VARIABLES
    \* fields of AppComponent
    stage, secondsLeft, lastRound, energy, pitchHz,
    leaderboard, personalBest,
    analyser, timeData, rafId, roundTimerId,
    energySamples, pitchSamples,
    \* the browser: armed intervals, scheduled animation frames, getUserMedia
    \* promises in flight, Date.now(), and whether the component was destroyed
    timers, rafPending, micPending, clock, destroyed,
    \* observers: the last handler that ran and what it found, the calls so
    \* far, the measurements of the frame callbacks since the last startRound,
    \* the ticks of the current round, the fate of the current round, and the
    \* arguments of its computeScore call
    op, pre, started, micCalls, frameLog, roundTicks, round, scored,
    \* the scoring engine on its own: accumulated arguments and result
    args, ret,
    \* every leaderboard entry ever added, in the order added
    entries,
    \* the pitch sub-scores on their own: the pitch samples and the sub-scores
    pitchArgs, subScores,
    \* the variety reward on its own: two move rates and their rewards
    moveRates, centered,
    \* the frame analysis on its own: the time-domain data with its sample
    \* rate, and what loop() measures on it
    frame, measured,
    \* a sample rate and a candidate lag of estimatePitchHz
    lagPick

compVars == <<stage, secondsLeft, lastRound, energy, pitchHz, leaderboard,
              personalBest, analyser, timeData, rafId, roundTimerId,
              energySamples, pitchSamples>>
envVars == <<timers, rafPending, micPending, clock, destroyed>>
obsVars == <<op, pre, started, micCalls, frameLog, roundTicks, round, scored, entries>>
scoreVars == <<args, ret>>
unitVars == <<pitchArgs, subScores, moveRates, centered, frame, measured, lagPick>>
pureVars == <<scoreVars, unitVars>>
vars == <<compVars, envVars, obsVars, pureVars>>

\* ------------------------------------------------------------- measurements
\* What one frame callback measures: this.energy and the estimated pitch.
Silent == [energy |-> 0, pitch |-> 0]
Steady == [energy |-> 6, pitch |-> 200]
Measurements == {Silent, Steady}
SteadyMeasurements == {Steady}
ScoreMeasurements ==
    {Silent, Steady, [energy |-> 10, pitch |-> 300], [energy |-> 3, pitch |-> 801]}

\* pitch samples below, inside and above the band of the scorer
PitchValues == {79, 200, 400, 801}

\* -------------------------------------------------------------- arithmetic
Min(a, b) == IF a < b THEN a ELSE b
Max(a, b) == IF a > b THEN a ELSE b
Abs(a) == IF a < 0 THEN 0 - a ELSE a

RECURSIVE SumSeq(_)
SumSeq(s) == IF s = <<>> THEN 0 ELSE Head(s) + SumSeq(Tail(s))

RECURSIVE MaxSeq(_)
\* Math.max(...s) of a non-empty sequence of non-negative numbers
MaxSeq(s) == IF s = <<>> THEN 0 ELSE Max(Head(s), MaxSeq(Tail(s)))

RECURSIVE SqrtBetween(_, _, _)
SqrtBetween(n, lo, hi) ==
    IF lo >= hi THEN lo
    ELSE LET mid == (lo + hi + 1) \div 2
         IN  IF mid * mid <= n THEN SqrtBetween(n, mid, hi)
             ELSE SqrtBetween(n, lo, mid - 1)

\* floor(Math.sqrt(n))
Sqrt(n) == SqrtBetween(n, 0, 46340)

\* Math.round of the non-negative rational num / den
Round(num, den) == (2 * num + den) \div (2 * den)

\* a clamp with no floor
clampAbove(v) == Min(Scale, v)

clamp01(v) == Max(0, Min(Scale, v))

\* ---------------------------------------------------------- frame analysis
\* A sample of the time-domain data, and the double computed from it, is <<v>>
\* for the finite number v, or NaN.
NaN == <<>>

\* silence, a murmur of 0.01, a voice of 0.5, clipping at -1 and 1, and NaN
SampleValues == {NaN, <<0 - AmpScale>>, <<0>>, <<1>>, <<AmpScale \div 2>>, <<AmpScale>>}

\* sample rates at which a frame of FrameLen samples spans the smallest lags
FrameRates == {1600, 3000}

\* the sample rates of audio devices
SampleRates == {8000, 16000, 22050, 44100, 48000, 96000}

HasNaN(buf) == \E i \in 1..Len(buf) : buf[i] = NaN

\* the samples of a frame without NaN, as integers
Values(buf) == [i \in 1..Len(buf) |-> buf[i][1]]

SumSquares(v) == SumSeq([i \in 1..Len(v) |-> v[i] * v[i]])

\* clamp01 of a double: Math.min(1, NaN) and Math.max(0, NaN) are NaN
clamp01OrNaN(x) == IF x = NaN THEN NaN ELSE <<clamp01(x[1])>>

\* lines 223-228, times 4.0: a sum with a NaN term is NaN, and so are its
\* quotient and square root; else 4 * sqrt(sum / length), in 1/Scale units
RmsTimes4(buf) ==
    IF HasNaN(buf) THEN NaN
    ELSE <<(Sqrt((1600 * SumSquares(Values(buf))) \div Len(buf)) * Scale)
               \div (10 * AmpScale)>>

\* line 229
FrameEnergy(buf) == clamp01OrNaN(RmsTimes4(buf))

\* line 250
MinLag(sampleRate) == sampleRate \div MaxHz

\* sampleRate / minHz rounded up
MaxLagCeiling(sampleRate) == (sampleRate + MinHz - 1) \div MinHz

\* line 251
MaxLag(sampleRate) == sampleRate \div MinHz

\* lines 332 and 347 on the pitch sampleRate / lag: p >= 80 && p <= 800
PitchKept(sampleRate, lag) == MinHz * lag <= sampleRate /\ sampleRate <= MaxHz * lag

\* lines 254-257, rms < 0.015 = 3/200, for the samples v of a frame without NaN
RmsBelowThreshold(v) ==
    LET k == 200 \div AmpScale
    IN  k * k * SumSquares(v) < 9 * Len(v)

\* lines 260-273: corr at one lag, times the positive length * length * AmpScale^2
Corr(v, lag) ==
    LET n == Len(v)
        total == SumSeq(v)
    IN  SumSeq([i \in 1..(n - lag) |-> (n * v[i] - total) * (n * v[i + lag] - total)])

\* a scan that lets a later lag of equal correlation win
BetterOrEqual(corr, bestCorr) == corr >= bestCorr

\* line 274
Better(corr, bestCorr) == corr > bestCorr

RECURSIVE ScanLags(_, _, _, _, _)
\* lines 267-278, from `lag` on
ScanLags(v, lag, maxLag, bestLag, bestCorr) ==
    IF lag > maxLag THEN bestLag
    ELSE IF Better(Corr(v, lag), bestCorr)
         THEN ScanLags(v, lag + 1, maxLag, lag, Corr(v, lag))
         ELSE ScanLags(v, lag + 1, maxLag, bestLag, bestCorr)

\* The pitch sampleRate / bestLag is <<[rate |-> sampleRate, lag |-> bestLag]>>,
\* null is <<>>.  With a NaN sample rms, mean and every corr are NaN, and no
\* comparison with NaN succeeds: the silence test fails and bestLag stays -1.
estimatePitchHz(buf, sampleRate) ==
    IF HasNaN(buf) THEN <<>>
    ELSE IF RmsBelowThreshold(Values(buf)) THEN <<>>
    ELSE LET bestLag ==
                 ScanLags(Values(buf), MinLag(sampleRate), MaxLag(sampleRate), 0 - 1, 0)
         IN  IF bestLag <= 0 THEN <<>>
             ELSE <<[rate |-> sampleRate, lag |-> bestLag]>>

\* --------------------------------------------------------- scoring engine
\* a band filter with no ceiling
InBandNoCeiling(p) == p >= MinHz

InBand(p) == p >= MinHz /\ p <= MaxHz

cleaned(pitches) == SelectSeq(pitches, InBand)

\* ratio >= Math.pow(2, 1/12), for a, b in Hz: 2^(1/12) = 1.0594630943...
SemitoneApart(a, b) ==
    LET hi == Max(a, b)
        lo == Min(a, b)
    IN  hi * 1000000 >= lo * 1059463

Moves(c) == Cardinality({i \in 2..Len(c) : SemitoneApart(c[i - 1], c[i])})

\* n * n * variance of c, an integer
SpreadSquare(c) ==
    LET squares == [i \in 1..Len(c) |-> c[i] * c[i]]
    IN  Len(c) * SumSeq(squares) - SumSeq(c) * SumSeq(c)

computePitchStability(pitches) ==
    IF Len(pitches) < MinPitchSamples THEN (35 * Scale) \div 100
    ELSE LET c == cleaned(pitches)
             n == Len(c)
         IN  IF n < MinPitchSamples THEN (35 * Scale) \div 100
             ELSE LET std10n == Sqrt(100 * SpreadSquare(c))  \* 10 * n * std
                  IN  \* 1 - (std - 15) / 85 = (100 - std) / 85
                      clamp01(((1000 * n - std10n) * Scale) \div (850 * n))

\* a reward that peaks at no movement: 1 - (moves/m) / 0.18
VarietyPeakAtFlat(moves, m) ==
    clamp01(((18 * m - 100 * moves) * Scale) \div (18 * m))

\* a reward that forgets Math.abs: 1 - (moves/m - 0.18) / 0.18
VarietyWithoutAbs(moves, m) ==
    clamp01(((18 * m - (100 * moves - 18 * m)) * Scale) \div (18 * m))

\* 1 - |moves/m - 0.18| / 0.18
VarietyOfMoveRate(moves, m) ==
    clamp01(((18 * m - Abs(100 * moves - 18 * m)) * Scale) \div (18 * m))

computePitchVariety(pitches) ==
    IF Len(pitches) < MinPitchSamples THEN (20 * Scale) \div 100
    ELSE LET c == cleaned(pitches)
         IN  IF Len(c) < MinPitchSamples THEN (20 * Scale) \div 100
             ELSE VarietyOfMoveRate(Moves(c), Max(1, Len(c) - 1))

\* avgEnergy * 0.75 + peakEnergy * 0.25
EnergyScore(samples) ==
    IF samples = <<>> THEN 0
    ELSE clamp01(((3 * SumSeq(samples) + MaxSeq(samples) * Len(samples)) * Scale)
                 \div (4 * EnergyScale * Len(samples)))

computeScore(es, ps) ==
    LET energyScore == EnergyScore(es)
        stabilityScore == computePitchStability(ps)
        varietyScore == computePitchVariety(ps)
        raw100 == energyScore * 45 + stabilityScore * 35 + varietyScore * 20
    IN  [score |-> Round(clamp01(raw100 \div 100) * 100, Scale),
         energy |-> Round(energyScore * 100, Scale),
         stability |-> Round(stabilityScore * 100, Scale),
         variety |-> Round(varietyScore * 100, Scale)]

\* ------------------------------------------------------------- leaderboard
\* the comparator of the leaderboard sort: negative puts a first
Compare(a, b) == IF b.score - a.score # 0 THEN b.score - a.score ELSE b.ts - a.ts

RECURSIVE InsertEntry(_, _)
InsertEntry(x, s) ==
    IF s = <<>> THEN <<x>>
    ELSE IF Compare(x, Head(s)) <= 0 THEN <<x>> \o s
         ELSE <<Head(s)>> \o InsertEntry(x, Tail(s))

RECURSIVE SortEntries(_)
\* Array.prototype.sort, which is stable
SortEntries(s) == IF s = <<>> THEN <<>> ELSE InsertEntry(Head(s), SortEntries(Tail(s)))

Slice(s, n) == SubSeq(s, 1, Min(n, Len(s)))

\* a board cut to its size before it is sorted
BoardAfterSliceFirst(board, entry) == SortEntries(Slice(<<entry>> \o board, BoardSize))

BoardAfter(board, entry) == Slice(SortEntries(<<entry>> \o board), BoardSize)

\* a best that a round of equal score replaces
BestAfterOrEqual(best, entry) ==
    IF best # <<>>
    THEN (IF entry.score >= best[1].score THEN <<entry>> ELSE best)
    ELSE <<entry>>

BestAfter(best, entry) ==
    IF best # <<>>
    THEN (IF entry.score > best[1].score THEN <<entry>> ELSE best)
    ELSE <<entry>>

\* ------------------------------------------------------------ the browser
\* The handle setInterval or requestAnimationFrame returns: one no armed
\* callback holds (the smallest such, to keep the handles few).
FreshId(S) ==
    CHOOSE i \in 1..(Cardinality(S) + 1) :
        i \notin S /\ \A j \in 1..(i - 1) : j \in S

\* clearInterval(id) / cancelAnimationFrame(id) under `if (id)`
Cleared(S, id) == IF id # 0 THEN S \ {id} ELSE S

\* ------------------------------------------------------------------ state
Init ==
    /\ stage = "onboarding"
    /\ secondsLeft = RoundSeconds
    /\ lastRound = <<>>
    /\ energy = 0
    /\ pitchHz = 0
    /\ leaderboard = <<>>
    /\ personalBest = <<>>
    /\ analyser = FALSE
    /\ timeData = FALSE
    /\ rafId = 0
    /\ roundTimerId = 0
    /\ energySamples = <<>>
    /\ pitchSamples = <<>>
    /\ timers = {}
    /\ rafPending = {}
    /\ micPending = 0
    /\ clock = 1
    /\ destroyed = FALSE
    /\ op = "constructor"
    /\ pre = [stage |-> "onboarding", round |-> "none", held |-> 0,
              left |-> RoundSeconds]
    /\ started = 0
    /\ micCalls = 0
    /\ frameLog = <<>>
    /\ roundTicks = 0
    /\ round = "none"
    /\ scored = <<>>
    /\ args = [energy |-> <<>>, pitch |-> <<>>]
    /\ ret = <<>>
    /\ entries = <<>>
    /\ pitchArgs = <<>>
    /\ subScores = <<>>
    /\ moveRates = <<>>
    /\ centered = <<>>
    /\ frame = <<>>
    /\ measured = <<>>
    /\ lagPick = <<>>

\* what the handler about to run finds
Found == [stage |-> stage, round |-> round, held |-> Len(energySamples),
          left |-> secondsLeft]

\* ----------------------------------------------------------- frame callback
\* a frame callback that accumulates whatever the stage
ObserveEnergyAlways(samples, st, m) == Append(samples, m.energy)

\* lines 237-240: the measurement joins the round's samples while singing
ObserveEnergy(samples, st, m) ==
    IF st = "singing" THEN Append(samples, m.energy) ELSE samples

\* a frame callback that accumulates a null pitch as well
ObservePitchAlways(samples, st, m) ==
    IF st = "singing" THEN Append(samples, m.pitch) ELSE samples

ObservePitch(samples, st, m) ==
    IF st = "singing" /\ m.pitch # 0 THEN Append(samples, m.pitch) ELSE samples

\* The body of loop() past its guard, run with stage st: the meters, the
\* samples, and the next animation frame requested in place of `fired`.
LoopBody(st, m, fired) ==
    /\ energy' = m.energy
    /\ pitchHz' = m.pitch
    /\ energySamples' = ObserveEnergy(energySamples, st, m)
    /\ pitchSamples' = ObservePitch(pitchSamples, st, m)
    /\ rafPending' = (rafPending \ fired) \cup {FreshId(rafPending \ fired)}
    /\ rafId' = FreshId(rafPending \ fired)
    /\ frameLog' = Append(frameLog, m)

\* An animation frame fires loop() with the analyser in place.
loop(M, maxFrames) ==
    \E id \in rafPending, m \in M :
        /\ analyser /\ timeData
        /\ Len(frameLog) < maxFrames
        /\ LoopBody(stage, m, {id})
        /\ op' = "loop"
        /\ pre' = Found
        /\ UNCHANGED <<stage, secondsLeft, lastRound, leaderboard, personalBest,
                       analyser, timeData, roundTimerId>>
        /\ UNCHANGED <<timers, micPending, clock, destroyed>>
        /\ UNCHANGED <<started, micCalls, roundTicks, round, scored, entries>>
        /\ UNCHANGED pureVars

\* An animation frame fires loop() after stopAudio: it returns at once and
\* requests no further frame.
loopStopped ==
    \E id \in rafPending :
        /\ ~(analyser /\ timeData)
        /\ rafPending' = rafPending \ {id}
        /\ op' = "loopStopped"
        /\ pre' = Found
        /\ UNCHANGED compVars
        /\ UNCHANGED <<timers, micPending, clock, destroyed>>
        /\ UNCHANGED <<started, micCalls, frameLog, roundTicks, round, scored, entries>>
        /\ UNCHANGED pureVars

\* ---------------------------------------------------------------- enableMic
enableMic ==
    /\ ~destroyed
    /\ micCalls < MaxMicCalls
    /\ micCalls' = micCalls + 1
    /\ micPending' = micPending + 1
    /\ op' = "enableMic"
    /\ pre' = Found
    /\ UNCHANGED compVars
    /\ UNCHANGED <<timers, rafPending, clock, destroyed>>
    /\ UNCHANGED <<started, frameLog, roundTicks, round, scored, entries>>
    /\ UNCHANGED pureVars

\* getUserMedia resolves: the audio graph is built, the stage becomes
\* 'ready' and loop() runs once, in line.
micGranted(M, maxFrames) ==
    \E m \in M :
        /\ micPending > 0
        /\ Len(frameLog) < maxFrames
        /\ micPending' = micPending - 1
        /\ analyser' = TRUE
        /\ timeData' = TRUE
        /\ stage' = "ready"
        /\ LoopBody("ready", m, {})
        /\ op' = "micGranted"
        /\ pre' = Found
        /\ UNCHANGED <<secondsLeft, lastRound, leaderboard, personalBest, roundTimerId>>
        /\ UNCHANGED <<timers, clock, destroyed>>
        /\ UNCHANGED <<started, micCalls, roundTicks, round, scored, entries>>
        /\ UNCHANGED pureVars

\* getUserMedia rejects
micDenied ==
    /\ micPending > 0
    /\ micPending' = micPending - 1
    /\ stage' = "onboarding"
    /\ op' = "micDenied"
    /\ pre' = Found
    /\ UNCHANGED <<secondsLeft, lastRound, energy, pitchHz, leaderboard, personalBest,
                   analyser, timeData, rafId, roundTimerId, energySamples, pitchSamples>>
    /\ UNCHANGED <<timers, rafPending, clock, destroyed>>
    /\ UNCHANGED <<started, micCalls, frameLog, roundTicks, round, scored, entries>>
    /\ UNCHANGED pureVars

\* --------------------------------------------------------------- startRound
\* line 102: without the analyser the call returns at once
startRoundNoMic ==
    /\ ~destroyed
    /\ ~(analyser /\ timeData)
    /\ op' = "startRoundNoMic"
    /\ pre' = Found
    /\ UNCHANGED compVars
    /\ UNCHANGED envVars
    /\ UNCHANGED <<started, micCalls, frameLog, roundTicks, round, scored, entries>>
    /\ UNCHANGED pureVars

\* a reset that forgets the pitch buffer
ResetRoundKeepingPitch ==
    /\ stage' = "singing"
    /\ secondsLeft' = RoundSeconds
    /\ lastRound' = <<>>
    /\ energySamples' = <<>>
    /\ pitchSamples' = pitchSamples

\* lines 104-110
ResetRound ==
    /\ stage' = "singing"
    /\ secondsLeft' = RoundSeconds
    /\ lastRound' = <<>>
    /\ energySamples' = <<>>
    /\ pitchSamples' = <<>>

\* a new interval set without clearing the one of the round before
ArmTimerNoClear ==
    /\ timers' = timers \cup {FreshId(timers)}
    /\ roundTimerId' = FreshId(timers)

\* lines 112-113: the interval of the round before is cleared, a new one set
ArmTimer ==
    /\ timers' = Cleared(timers, roundTimerId) \cup {FreshId(Cleared(timers, roundTimerId))}
    /\ roundTimerId' = FreshId(Cleared(timers, roundTimerId))

startRound ==
    /\ ~destroyed
    /\ analyser /\ timeData
    /\ started < MaxRounds
    /\ ResetRound
    /\ ArmTimer
    /\ op' = "startRound"
    /\ pre' = Found
    /\ started' = started + 1
    /\ frameLog' = <<>>
    /\ roundTicks' = 0
    /\ round' = "running"
    /\ scored' = <<>>
    /\ UNCHANGED <<energy, pitchHz, leaderboard, personalBest, analyser, timeData, rafId>>
    /\ UNCHANGED <<rafPending, micPending, clock, destroyed>>
    /\ UNCHANGED <<micCalls, entries>>
    /\ UNCHANGED pureVars

\* ---------------------------------------------------------------- stopRound
\* a stopRound that acts on a running round only
StageAfterStopIfSinging ==
    IF stage = "singing" THEN (IF analyser THEN "ready" ELSE "onboarding") ELSE stage

\* line 125
StageAfterStop == IF analyser THEN "ready" ELSE "onboarding"

\* the handle is dropped and the interval left armed
ForgetTimer ==
    /\ timers' = timers
    /\ roundTimerId' = 0

\* clearInterval(this.roundTimerId) under `if (this.roundTimerId)`, then null
DisarmTimer ==
    /\ timers' = Cleared(timers, roundTimerId)
    /\ roundTimerId' = 0

RoundAfterStop == IF round = "running" THEN "aborted" ELSE round

stopRound ==
    /\ ~destroyed
    /\ DisarmTimer
    /\ stage' = StageAfterStop
    /\ op' = "stopRound"
    /\ pre' = Found
    /\ round' = RoundAfterStop
    /\ UNCHANGED <<secondsLeft, lastRound, energy, pitchHz, leaderboard, personalBest,
                   analyser, timeData, rafId, energySamples, pitchSamples>>
    /\ UNCHANGED <<rafPending, micPending, clock, destroyed>>
    /\ UNCHANGED <<started, micCalls, frameLog, roundTicks, scored, entries>>
    /\ UNCHANGED pureVars

\* ------------------------------------------------------------- the interval
\* a round that runs one tick too long
TimedOutLate(s) == s < 0

\* a round that ends one tick early
TimedOutEarly(s) == s <= 1

\* line 115
TimedOut(s) == s <= 0

finishRound ==
    LET score == computeScore(energySamples, pitchSamples)
        entry == [score |-> score.score, ts |-> clock]
    IN  /\ DisarmTimer
        /\ lastRound' = <<[score |-> score.score, energy |-> score.energy,
                           stability |-> score.stability, variety |-> score.variety,
                           ts |-> clock]>>
        /\ stage' = "results"
        /\ leaderboard' = BoardAfter(leaderboard, entry)
        /\ personalBest' = BestAfter(personalBest, entry)
        /\ clock' = clock + 1
        /\ scored' = <<[energy |-> energySamples, pitch |-> pitchSamples]>>
        /\ round' = "scored"
        /\ entries' = Append(entries, entry)

\* The callback of setInterval (lines 113-118) fires.
tick ==
    \E id \in timers :
        /\ secondsLeft' = secondsLeft - 1
        /\ roundTicks' = roundTicks + 1
        /\ pre' = Found
        /\ IF TimedOut(secondsLeft - 1)
           THEN /\ finishRound
                /\ op' = "finishRound"
           ELSE /\ op' = "tick"
                /\ UNCHANGED <<stage, lastRound, leaderboard, personalBest, roundTimerId,
                               timers, clock, round, scored, entries>>
        /\ UNCHANGED <<energy, pitchHz, analyser, timeData, rafId, energySamples,
                       pitchSamples>>
        /\ UNCHANGED <<rafPending, micPending, destroyed>>
        /\ UNCHANGED <<started, micCalls, frameLog>>
        /\ UNCHANGED pureVars

\* -------------------------------------------------------------- ngOnDestroy
\* stopRound(), then stopAudio()
ngOnDestroy ==
    /\ ~destroyed
    /\ DisarmTimer
    /\ stage' = StageAfterStop
    /\ round' = RoundAfterStop
    /\ rafPending' = Cleared(rafPending, rafId)
    /\ rafId' = 0
    /\ analyser' = FALSE
    /\ destroyed' = TRUE
    /\ op' = "ngOnDestroy"
    /\ pre' = Found
    /\ UNCHANGED <<secondsLeft, lastRound, energy, pitchHz, leaderboard, personalBest,
                   timeData, energySamples, pitchSamples>>
    /\ UNCHANGED <<micPending, clock>>
    /\ UNCHANGED <<started, micCalls, frameLog, roundTicks, scored, entries>>
    /\ UNCHANGED pureVars

\* ------------------------------------------------------------ specifications
Handlers ==
    \/ enableMic
    \/ micDenied
    \/ startRoundNoMic
    \/ startRound
    \/ stopRound
    \/ tick
    \/ loopStopped
    \/ ngOnDestroy

Next ==
    \/ Handlers
    \/ micGranted(Measurements, MaxFrames)
    \/ loop(Measurements, MaxFrames)

Spec == Init /\ [][Next]_vars

\* Every frame hears the same steady voice.
NextSteady ==
    \/ Handlers
    \/ micGranted(SteadyMeasurements, SteadyFrames)
    \/ loop(SteadyMeasurements, SteadyFrames)

SpecSteady == Init /\ [][NextSteady]_vars

\* The scoring engine on its own: measurements accumulate as a singing round
\* accumulates them, then computeScore is applied.
ScoreObserve ==
    \E m \in ScoreMeasurements :
        /\ ret = <<>>
        /\ Len(args.energy) < ScoreLen
        /\ args' = [energy |-> ObserveEnergy(args.energy, "singing", m),
                    pitch |-> ObservePitch(args.pitch, "singing", m)]
        /\ UNCHANGED <<ret, compVars, envVars, obsVars, unitVars>>

ScoreApply ==
    /\ ret = <<>>
    /\ ret' = <<computeScore(args.energy, args.pitch)>>
    /\ UNCHANGED <<args, compVars, envVars, obsVars, unitVars>>

NextScore == ScoreObserve \/ ScoreApply

SpecScore == Init /\ [][NextScore]_vars

\* The pitch sub-scores on their own: pitch samples accumulate, then
\* computePitchStability and computePitchVariety are applied to them.
PitchObserve ==
    \E p \in PitchValues :
        /\ subScores = <<>>
        /\ Len(pitchArgs) < PitchLen
        /\ pitchArgs' = Append(pitchArgs, p)
        /\ UNCHANGED <<subScores, moveRates, centered, frame, measured, lagPick>>
        /\ UNCHANGED <<compVars, envVars, obsVars, scoreVars>>

PitchApply ==
    /\ subScores = <<>>
    /\ subScores' = <<[stability |-> computePitchStability(pitchArgs),
                       variety |-> computePitchVariety(pitchArgs)]>>
    /\ UNCHANGED <<pitchArgs, moveRates, centered, frame, measured, lagPick>>
    /\ UNCHANGED <<compVars, envVars, obsVars, scoreVars>>

NextPitch == PitchObserve \/ PitchApply

SpecPitch == Init /\ [][NextPitch]_vars

\* The variety reward on its own (lines 360-365): two move rates, each a number
\* of moves among the adjacent pairs of 8 or more in-band samples, the second
\* over as many pairs as the first or twice as many; then the reward of each.
VarietyChoose ==
    /\ moveRates = <<>>
    /\ \E m \in (MinPitchSamples - 1)..MaxPairs :
           \E n \in {m, 2 * m} \cap (1..MaxPairs), a \in 0..m :
               \E b \in 0..n :
                   moveRates' = <<[moves |-> a, pairs |-> m], [moves |-> b, pairs |-> n]>>
    /\ UNCHANGED <<pitchArgs, subScores, centered, frame, measured, lagPick>>
    /\ UNCHANGED <<compVars, envVars, obsVars, scoreVars>>

VarietyApply ==
    /\ moveRates # <<>>
    /\ centered = <<>>
    /\ centered' = <<VarietyOfMoveRate(moveRates[1].moves, moveRates[1].pairs),
                      VarietyOfMoveRate(moveRates[2].moves, moveRates[2].pairs)>>
    /\ UNCHANGED <<pitchArgs, subScores, moveRates, frame, measured, lagPick>>
    /\ UNCHANGED <<compVars, envVars, obsVars, scoreVars>>

NextVariety == VarietyChoose \/ VarietyApply

SpecVariety == Init /\ [][NextVariety]_vars

\* The frame analysis on its own: the analyser fills timeData sample by
\* sample, then the body of loop() measures the frame at a sample rate.
FrameSample ==
    \E x \in SampleValues :
        /\ measured = <<>>
        /\ Len(frame) < FrameLen
        /\ frame' = Append(frame, x)
        /\ UNCHANGED <<pitchArgs, subScores, moveRates, centered, measured, lagPick>>
        /\ UNCHANGED <<compVars, envVars, obsVars, scoreVars>>

FrameAnalyse ==
    \E sampleRate \in FrameRates :
        /\ measured = <<>>
        /\ frame # <<>>
        /\ measured' = <<[rate |-> sampleRate,
                          energy |-> FrameEnergy(frame),
                          pitch |-> estimatePitchHz(frame, sampleRate)]>>
        /\ UNCHANGED <<pitchArgs, subScores, moveRates, centered, frame, lagPick>>
        /\ UNCHANGED <<compVars, envVars, obsVars, scoreVars>>

NextFrame == FrameSample \/ FrameAnalyse

SpecFrame == Init /\ [][NextFrame]_vars

\* scores of finalized rounds: of a silent round and of a steady voice
BoardScores == {16, 62}

\* the rounds so far that did not score as the first round did
Odd(log) == {i \in 1..Len(log) : log[i].score # log[1].score}

\* The leaderboard on its own: lines 141-157 of finishRound, for a round that
\* scored s and is finalized at the time `clock`.
roundFinalized ==
    \E s \in BoardScores :
        LET entry == [score |-> s, ts |-> clock]
        IN  /\ Len(entries) < BoardRounds
            /\ (entries # <<>> /\ s # entries[1].score) =>
                   Cardinality(Odd(entries)) < OddRounds
            /\ leaderboard' = BoardAfter(leaderboard, entry)
            /\ personalBest' = BestAfter(personalBest, entry)
            /\ entries' = Append(entries, entry)
            /\ clock' = clock + 1
            /\ UNCHANGED <<stage, secondsLeft, lastRound, energy, pitchHz, analyser,
                           timeData, rafId, roundTimerId, energySamples, pitchSamples>>
            /\ UNCHANGED <<timers, rafPending, micPending, destroyed>>
            /\ UNCHANGED <<op, pre, started, micCalls, frameLog, roundTicks, round, scored>>
            /\ UNCHANGED pureVars

NextBoard == roundFinalized

SpecBoard == Init /\ [][NextBoard]_vars

\* The lag interval on its own: estimatePitchHz runs at a sample rate and
\* returns sampleRate / lag for a lag of minLag..maxLag (each lag is the best
\* one of some frame), and the scorer filters that pitch.
LagChoose ==
    /\ lagPick = <<>>
    /\ \E sampleRate \in SampleRates :
           \E lag \in MinLag(sampleRate)..MaxLag(sampleRate) :
               lagPick' = <<[rate |-> sampleRate, lag |-> lag,
                             kept |-> PitchKept(sampleRate, lag)]>>
    /\ UNCHANGED <<pitchArgs, subScores, moveRates, centered, frame, measured>>
    /\ UNCHANGED <<compVars, envVars, obsVars, scoreVars>>

NextLag == LagChoose

SpecLag == Init /\ [][NextLag]_vars

\* ------------------------------------------------------------------ claims
EnergyOf(log) == [i \in 1..Len(log) |-> log[i].energy]

RECURSIVE PitchOf(_)
PitchOf(log) ==
    IF log = <<>> THEN <<>>
    ELSE (IF Head(log).pitch # 0 THEN <<Head(log).pitch>> ELSE <<>>) \o PitchOf(Tail(log))

\* C1: when a tick finalizes a round, the sequences handed to computeScore are
\* exactly the measurements, in order and each once, of the frame callbacks
\* that ran since the startRound that began the round.
C1_ScoredFramesAreRoundFrames ==
    op = "finishRound" =>
        scored = <<[energy |-> EnergyOf(frameLog), pitch |-> PitchOf(frameLog)]>>

\* C2: right after a startRound that takes effect the stage is 'singing',
\* secondsLeft is 10 and both sample buffers are empty.
C2_StartRoundResets ==
    op = "startRound" =>
        /\ stage = "singing"
        /\ secondsLeft = 10
        /\ energySamples = <<>>
        /\ pitchSamples = <<>>

\* a startRound that follows a round aborted with samples in its buffers
C2_Witness ==
    /\ op = "startRound"
    /\ pre.round = "aborted"
    /\ pre.held > 0

\* C3: a round is finalized by its 10th tick and by no earlier one: while it
\* runs, fewer than 10 ticks have fired, each took one second off secondsLeft
\* and its one timer is armed; once scored, 10 ticks have fired, secondsLeft
\* is 0, no timer is armed, lastRound is the score of the samples handed to
\* computeScore, and no round is scored twice.
C3_FinalizedByTenthTick ==
    /\ round = "running" =>
          /\ roundTicks < 10
          /\ secondsLeft = 10 - roundTicks
          /\ roundTimerId # 0 /\ timers = {roundTimerId}
          /\ lastRound = <<>>
          /\ clock - 1 < started
    /\ round = "scored" =>
          /\ roundTicks = 10
          /\ secondsLeft = 0
          /\ roundTimerId = 0 /\ timers = {}
          /\ scored # <<>> /\ lastRound # <<>>
          /\ LET s == computeScore(scored[1].energy, scored[1].pitch)
             IN  /\ lastRound[1].score = s.score
                 /\ lastRound[1].energy = s.energy
                 /\ lastRound[1].stability = s.stability
                 /\ lastRound[1].variety = s.variety
          /\ clock - 1 <= started
    /\ op = "finishRound" => stage = "results" /\ round = "scored"

\* the 10th tick of a round with samples has just finalized it
C3_Witness ==
    /\ op = "finishRound"
    /\ roundTicks = 10
    /\ pre.left = 1
    /\ pre.held > 0

C5_AbortedRoundNeverScored ==
    [][/\ (op' = "stopRound" /\ stage = "singing") =>
              /\ timers' = {} /\ roundTimerId' = 0
              /\ stage' = "ready"
              /\ round' = "aborted"
       /\ (round = "aborted" /\ op' # "startRound") =>
              /\ round' = "aborted"
              /\ timers' = {} /\ roundTimerId' = 0
              /\ op' \notin {"tick", "finishRound"}
              /\ lastRound' = lastRound
              /\ leaderboard' = leaderboard
              /\ personalBest' = personalBest]_vars

\* a frame callback runs after a round with samples was aborted
C5_Witness ==
    /\ op = "loop"
    /\ round = "aborted"
    /\ stage = "ready"
    /\ energySamples # <<>>

C7_SamplesChangeOnlyWhileSinging ==
    [][(energySamples' # energySamples \/ pitchSamples' # pitchSamples) =>
           \/ op' = "startRound"
           \/ op' = "loop" /\ stage = "singing"]_vars

\* a frame callback has run outside 'singing' with samples in the buffer
C7_Witness ==
    /\ op = "loop"
    /\ pre.stage = "results"
    /\ pre.held > 0
    /\ Len(energySamples) = pre.held

\* C8 as stated: from the stage 'results' no tick, frame callback or
\* stopRound changes the stage or lastRound.
C8_ResultsHeldUntilStart ==
    [][(stage = "results" /\ op' \in {"tick", "finishRound", "loop", "loopStopped", "stopRound"}) =>
           stage' = "results" /\ lastRound' = lastRound]_vars

\* C8 amended: once a round is finalized lastRound holds its breakdown until
\* the next startRound: no tick fires, a frame callback changes neither the
\* stage nor lastRound, and a stopRound leaves lastRound unchanged but moves
\* the stage from 'results' to 'ready'.
C8_BreakdownHeldUntilStart ==
    [][(round = "scored" /\ op' # "startRound") =>
           /\ round' = "scored"
           /\ lastRound # <<>> /\ lastRound' = lastRound
           /\ op' \notin {"tick", "finishRound"}
           /\ op' \in {"loop", "loopStopped"} => stage' = stage
           /\ (op' = "stopRound" /\ stage = "results") => stage' = "ready"]_vars

\* a stopRound has been called on the results of a finalized round
C8_Witness ==
    /\ op = "stopRound"
    /\ pre.stage = "results"
    /\ round = "scored"
    /\ stage = "ready"
    /\ lastRound # <<>>

\* C9: a round finalized on 10 observed frames, each of energy 0.6 and pitch
\* 200 Hz, has the breakdown energy 60, stability 100, variety 0, score 62.
C9_SteadyRoundScores62 ==
    (/\ op = "finishRound"
     /\ scored = <<[energy |-> [i \in 1..10 |-> 6], pitch |-> [i \in 1..10 |-> 200]]>>) =>
        /\ lastRound # <<>>
        /\ lastRound[1].energy = 60
        /\ lastRound[1].stability = 100
        /\ lastRound[1].variety = 0
        /\ lastRound[1].score = 62

\* the finalizing tick of a round whose 10 frames were all accumulated
C9_Witness ==
    /\ op = "finishRound"
    /\ frameLog = [i \in 1..10 |-> Steady]
    /\ scored = <<[energy |-> [i \in 1..10 |-> 6], pitch |-> [i \in 1..10 |-> 200]]>>

\* C10: for every pair of sequences a round can accumulate, computeScore
\* returns a breakdown whose four fields are integers in 0..100; for two
\* empty sequences the energy is 0, the stability 35 and the variety 20.
C10_ScoreTotalAndBounded ==
    ret # <<>> =>
        /\ ret[1].score \in 0..100
        /\ ret[1].energy \in 0..100
        /\ ret[1].stability \in 0..100
        /\ ret[1].variety \in 0..100
        /\ (args.energy = <<>> /\ args.pitch = <<>>) =>
              /\ ret[1].energy = 0
              /\ ret[1].stability = 35
              /\ ret[1].variety = 20

\* computeScore has been applied to two empty sequences
C10_Witness ==
    /\ ret # <<>>
    /\ args.energy = <<>>
    /\ args.pitch = <<>>

\* the samples of ps that lie in [80, 800] Hz, in order
InBandOnly(ps) == SelectSeq(ps, LAMBDA p : p \in 80..800)

\* C11: with fewer than 8 pitch samples in [80, 800] Hz the stability
\* sub-score is the floor 0.35 and the variety sub-score the floor 0.2,
\* whatever the out-of-band samples; with 8 or more, both sub-scores are
\* those of the in-band samples alone.
C11_FloorsBelowEightInBand ==
    subScores # <<>> =>
        LET c == InBandOnly(pitchArgs)
        IN  /\ Len(c) < 8 =>
                  /\ subScores[1].stability * 100 = 35 * Scale
                  /\ subScores[1].variety * 100 = 20 * Scale
            /\ Len(c) >= 8 =>
                  /\ subScores[1].stability = computePitchStability(c)
                  /\ subScores[1].variety = computePitchVariety(c)

\* the sub-scores of 9 samples of which 7 lie in the band, one below it and
\* one above it
C11_Witness ==
    /\ subScores # <<>>
    /\ Len(pitchArgs) = 9
    /\ Len(InBandOnly(pitchArgs)) = 7
    /\ \E i \in 1..9 : pitchArgs[i] < 80
    /\ \E i \in 1..9 : pitchArgs[i] > 800

\* 100 * pairs * |moveRate - 0.18|
OffPeak(r) == Abs(100 * r.moves - 18 * r.pairs)

\* C12: for 8 or more in-band samples the variety sub-score is 1 exactly when
\* the move rate is 0.18, it is 0 when the move rate is 0 or at least 0.36,
\* two move rates 0.18 - d and 0.18 + d have the same sub-score, and a move
\* rate no farther from 0.18 than another has a sub-score no smaller.
C12_VarietyPeaksAtMoveRate18 ==
    centered # <<>> =>
        LET r == moveRates[1]
            q == moveRates[2]
        IN  /\ centered[1] = Scale <=> 100 * r.moves = 18 * r.pairs
            /\ (r.moves = 0 \/ 100 * r.moves >= 36 * r.pairs) => centered[1] = 0
            /\ (100 * r.moves * q.pairs + 100 * q.moves * r.pairs = 36 * r.pairs * q.pairs
                    /\ OffPeak(r) * q.pairs = OffPeak(q) * r.pairs) =>
                   centered[1] = centered[2]
            /\ OffPeak(r) * q.pairs <= OffPeak(q) * r.pairs => centered[1] >= centered[2]

\* the rewards of the move rates 4/25 = 0.16 and 10/50 = 0.20
C12_Witness ==
    /\ centered # <<>>
    /\ moveRates = <<[moves |-> 4, pairs |-> 25], [moves |-> 10, pairs |-> 50]>>
    /\ centered[1] = centered[2]
    /\ centered[1] > 0 /\ centered[1] < Scale

\* C13: every frame, also one with NaN samples, is measured with a finite
\* energy in [0,1], and a frame with NaN samples with energy 0 and pitch null.
C13_DegenerateFrameIsSilent ==
    measured # <<>> =>
        /\ measured[1].energy # NaN
        /\ measured[1].energy[1] \in 0..Scale
        /\ HasNaN(frame) => measured[1].energy = <<0>> /\ measured[1].pitch = <<>>

\* the lags of lo..hi at which the correlation of v is positive and the
\* largest of lo..hi
PeakLags(v, lo, hi) ==
    {l \in lo..hi : Corr(v, l) > 0 /\ \A k \in lo..hi : Corr(v, k) <= Corr(v, l)}

\* C17: for a frame whose RMS is at least 0.015, estimatePitchHz returns
\* sampleRate / L for the smallest lag L of minLag..maxLag whose correlation
\* is the largest of that interval, if that correlation is positive; it
\* returns null if no lag of the interval has a positive correlation, as when
\* every lag is at least the frame length, and if the RMS is below 0.015.
C17_SmallestLagOfLargestCorrelation ==
    measured # <<>> =>
        LET sampleRate == measured[1].rate
            pitch == measured[1].pitch
            v == Values(frame)
            minLag == sampleRate \div 800
            maxLag == sampleRate \div 80
            peaks == PeakLags(v, minLag, maxLag)
        IN  IF HasNaN(frame) THEN pitch = <<>>
            \* mean square below 0.015 * 0.015 = 9 / 40000
            ELSE IF 4 * SumSquares(v) < 9 * Len(v) * ((AmpScale * AmpScale) \div 10000)
                 THEN pitch = <<>>
            ELSE IF peaks = {} THEN pitch = <<>>
            ELSE /\ pitch # <<>>
                 /\ pitch[1].rate = sampleRate
                 /\ pitch[1].lag \in peaks
                 /\ \A l \in peaks : pitch[1].lag <= l

\* a frame whose largest correlation is reached at two lags, measured with
\* the smaller of them
C17_Witness ==
    /\ measured # <<>>
    /\ ~HasNaN(frame)
    /\ measured[1].pitch # <<>>
    /\ Cardinality(PeakLags(Values(frame), measured[1].rate \div 800,
                            measured[1].rate \div 80)) > 1

\* entry a ranks before entry b: a higher score, or the same score later
Outranks(a, b) == a.score > b.score \/ (a.score = b.score /\ a.ts > b.ts)

Added == {entries[i] : i \in 1..Len(entries)}

\* the entries ever added that fewer than 25 others outrank
Top25 == {e \in Added : Cardinality({x \in Added : Outranks(x, e)}) < 25}

\* C14: after any sequence of finalized rounds from an empty leaderboard, the
\* leaderboard holds at most 25 entries, by score descending and, at equal
\* scores, most recent first, and they are the top 25 of all entries added.
C14_LeaderboardIsTop25 ==
    /\ Len(leaderboard) <= 25
    /\ \A i \in 1..Len(leaderboard) : \A j \in (i + 1)..Len(leaderboard) :
           Outranks(leaderboard[i], leaderboard[j])
    /\ {leaderboard[i] : i \in 1..Len(leaderboard)} = Top25
    /\ Len(leaderboard) = Cardinality(Top25)

\* 27 rounds: the first has left a full board, and the last never entered it
C14_Witness ==
    /\ Len(entries) = 27
    /\ Len(leaderboard) = 25
    /\ entries[1] \notin Top25
    /\ entries[27] \notin Top25
    /\ leaderboard[1].score = leaderboard[2].score

\* the first of the rounds whose score no finalized round has beaten
FirstBest ==
    CHOOSE i \in 1..Len(entries) :
        /\ \A j \in 1..Len(entries) : entries[j].score <= entries[i].score
        /\ \A j \in 1..(i - 1) : entries[j].score < entries[i].score

\* C20: from empty storage, after any sequence of finalized rounds
\* personalBest is the entry of the earliest round that reached the largest
\* score of all finalized rounds; its score is at least that of every
\* leaderboard entry and is that of the first leaderboard entry.
C20_PersonalBestIsEarliestMaximum ==
    /\ entries = <<>> => personalBest = <<>>
    /\ entries # <<>> =>
          /\ personalBest = <<entries[FirstBest]>>
          /\ \A i \in 1..Len(leaderboard) : leaderboard[i].score <= personalBest[1].score
          /\ leaderboard # <<>>
          /\ leaderboard[1].score = personalBest[1].score

\* the second round beat the first and the third equalled the second: the
\* second is the personal best, the third leads the board
C20_Witness ==
    /\ Len(entries) >= 3
    /\ entries[1].score < entries[2].score
    /\ entries[3].score = entries[2].score
    /\ personalBest = <<entries[2]>>
    /\ leaderboard[1] = entries[3]

C16_EveryLagInBand ==
    lagPick # <<>> =>
        /\ 80 * lagPick[1].lag <= lagPick[1].rate
        /\ lagPick[1].rate <= 800 * lagPick[1].lag
        /\ lagPick[1].kept

\* C16 amended: at every sample rate, the pitch of every lag of
\* minLag..maxLag is at least 80 Hz, and at most 800 Hz for every lag above
\* minLag; the pitch of minLag itself lies in [800, 800 * (minLag + 1) / minLag)
\* Hz and passes the scorer's filter only if the sample rate is a multiple
\* of 800.
C16_EveryLagButMinLagInBand ==
    lagPick # <<>> =>
        LET sampleRate == lagPick[1].rate
            lag == lagPick[1].lag
            minLag == sampleRate \div 800
        IN  /\ 80 * lag <= sampleRate
            /\ lag >= minLag
            /\ lag > minLag => sampleRate < 800 * lag /\ lagPick[1].kept
            /\ lag = minLag =>
                  /\ 800 * lag <= sampleRate
                  /\ sampleRate < 800 * (lag + 1)
                  /\ lagPick[1].kept <=> sampleRate = 800 * lag

\* at 44100 Hz the lag 55 gives 801.8 Hz, which the scorer drops
C16_Witness ==
    lagPick = <<[rate |-> 44100, lag |-> 55, kept |-> FALSE]>>

\* C18: in every state at most one round timer is armed, and one is armed
\* exactly when the stage is 'singing'; so no tick takes a second off
\* secondsLeft or finalizes a round in another stage.
C18_TimerArmedIffSinging ==
    /\ timers = {}
    /\ [][/\ Cardinality(timers') <= 1
          /\ timers' # {} <=> stage' = "singing"
          /\ op' \in {"tick", "finishRound"} => stage = "singing"]_vars

\* C19: in every state at most one frame callback is scheduled, whatever the
\* number and timing of the enableMic calls, so an animation frame adds at
\* most one energy sample to the running round.
C19_OneAnimationLoop == Cardinality(rafPending) <= 1

====
